---- MODULE Spec2Model ----
(***************************************************************************)
(* A model of the DDQN trading agent of q_learning.py (class DDQNAgent)    *)
(* and of the training loop that drives it.                                *)
(*                                                                         *)
(* Real numbers (epsilon, gamma, regression targets) are exact rationals   *)
(* <<numerator, denominator>>; floating-point rounding is not modelled.    *)
(* A network's weights are represented by the action-value table they      *)
(* compute, a function in [States -> [Actions -> Int]].                    *)
(***************************************************************************)
EXTENDS Integers, Sequences, FiniteSets, TLC

\* ------------------------------------------------------------------------
\* Hyperparameters, scaled down; as in the driver the target network is
\* synchronized more often than a batch fills (tau < batch_size) and the
\* buffer can hold a batch (replay_capacity >= batch_size)
\* ------------------------------------------------------------------------
replay_capacity == 3
batch_size == 3
tau == 2
epsilon_decay_steps == 2

\* ------------------------------------------------------------------------
\* Exact rational arithmetic
\* ------------------------------------------------------------------------
Abs(x) == IF x < 0 THEN -x ELSE x

\* every operation binds its operands to their values first (a and b
\* below), so that an operand is computed once however often it is used
RECURSIVE GCD(_, _)
GCD(a, b) ==
    IF b = 0 THEN a ELSE CHOOSE g \in {GCD(b, r) : r \in {a % b}} : TRUE

Rat(n, d) ==
    CHOOSE q \in
        {<<(IF b < 0 THEN -1 ELSE 1) * (a \div g),
           (IF b < 0 THEN -1 ELSE 1) * (b \div g)>> :
             g \in {GCD(Abs(a), Abs(b)) : a \in {n}, b \in {d}},
             a \in {n}, b \in {d}} : TRUE

FromInt(n) == <<n, 1>>
RatAdd(x, y) ==
    CHOOSE q \in
        {LET g == GCD(a[2], b[2])
         IN  Rat(a[1] * (b[2] \div g) + b[1] * (a[2] \div g),
                 (a[2] \div g) * b[2]) : a \in {x}, b \in {y}} : TRUE
RatSub(x, y) ==
    CHOOSE q \in
        {LET g == GCD(a[2], b[2])
         IN  Rat(a[1] * (b[2] \div g) - b[1] * (a[2] \div g),
                 (a[2] \div g) * b[2]) : a \in {x}, b \in {y}} : TRUE
RatMul(x, y) ==
    CHOOSE q \in {Rat(a[1] * b[1], a[2] * b[2]) : a \in {x}, b \in {y}} :
        TRUE
RatDivInt(x, n) == CHOOSE q \in {Rat(a[1], a[2] * n) : a \in {x}} : TRUE
RatLeq(x, y) ==
    \E a \in {x}, b \in {y} :
        LET g == GCD(a[2], b[2])
        IN  a[1] * (b[2] \div g) <= b[1] * (a[2] \div g)
RatLt(x, y) ==
    \E a \in {x}, b \in {y} :
        LET g == GCD(a[2], b[2])
        IN  a[1] * (b[2] \div g) < b[1] * (a[2] \div g)

RECURSIVE RatPow(_, _)
RatPow(x, n) == IF n = 0 THEN FromInt(1) ELSE RatMul(x, RatPow(x, n - 1))

\* ------------------------------------------------------------------------
\* Hyperparameters
\* ------------------------------------------------------------------------
gamma == <<99, 100>>
epsilon_start == <<1, 1>>
epsilon_end == <<1, 100>>
epsilon_exponential_decay == <<99, 100>>

\* ------------------------------------------------------------------------
\* Input domains
\* ------------------------------------------------------------------------
States == {0, 1}
Actions == {0, 1}
num_actions == Cardinality(Actions)
Rewards == {-1, 1}
NotDone == {0, 1}
\* values of np.random.rand()
Draws == {<<0, 1>>, <<1, 2>>}
\* values of the scalar loss returned by train_on_batch
LossValues == {0}
\* weights a network can have (initial or after a gradient step), each given
\* by the action-values it computes
Weights ==
    { [s \in States |-> IF s = 0 THEN [a \in Actions |-> 1 - a]
                                 ELSE [a \in Actions |-> 2 * a]],
      [s \in States |-> IF s = 0 THEN [a \in Actions |-> a]
                                 ELSE [a \in Actions |-> 2]] }

\* call budgets of the specifications
MaxMemorize == replay_capacity + 1
MaxEpisodes == epsilon_decay_steps + 2
MaxCalls == batch_size
MaxSelect == batch_size
MaxReplay == 2

\* the training loop, scaled: the window of the early-stopping check (25),
\* the step cap of an episode (252) and the episode cap (1000)
EarlyStopWindow == 2
max_episode_steps == 2
max_episodes == EarlyStopWindow + 2

\* the window of the results table's rolling count (100), scaled
RollingWindow == 3

\* the tables given to mask and flatten_cols have at most MaxRows rows
MaxRows == 4

\* the durations given to format_time: up to MaxSeconds seconds, in steps
\* of 1/TicksPerSecond second
MaxSeconds == 7325
TicksPerSecond == 2

\* what the environment returns: observations, rewards, and the final
\* nav and market_nav of its ledger
ResetStates == {0}
StepStates == {0}
StepRewards == {1}
\* the done flag of a step: the environment may end an episode at any step,
\* and the loop's step cap may be reached without it
StepDone == BOOLEAN
Navs == {2, 3}
MarketNavs == {2}
DriverDraws == {<<1, 2>>}
DriverChoices == {1}

Transition(s, a, r, s_prime, not_done) ==
    [s |-> s, a |-> a, r |-> r, s_prime |-> s_prime, not_done |-> not_done]

VARIABLES
    experience, online_network, target_network,
    epsilon, epsilon_decay,
    total_steps, episodes, episode_length, episode_reward,
    steps_per_episode, rewards_history, losses, train,
    this_state, action, minibatch, targets, q_values,
    calls, replay_calls, select_calls, last_sync, synced_at, raised

\* the training loop's variables; pc is the position in the loop, and
\* resets, env_steps, memorize_calls and closes count the calls of
\* reset, step, memorize_transition and close made by the loop
VARIABLES
    pc, episode, episode_step, next_state, reward, done,
    navs, market_navs, diffs, closed, results,
    resets, env_steps, memorize_calls, closes

\* the tables handled by mask and flatten_cols (frames, by reference, and
\* the reference last returned) and the duration and text of format_time
VARIABLES
    frames, returned, called, total, formatted

agent_vars == <<experience, online_network, target_network,
                epsilon, epsilon_decay,
                total_steps, episodes, episode_length, episode_reward,
                steps_per_episode, rewards_history, losses, train,
                this_state, action, minibatch, targets, q_values,
                calls, replay_calls, select_calls, last_sync,
                   synced_at, raised>>

driver_vars == <<pc, episode, episode_step, next_state, reward, done,
                 navs, market_navs, diffs, closed, results,
                 resets, env_steps, memorize_calls, closes>>

tool_vars == <<frames, returned, called, total, formatted>>

vars == <<agent_vars, driver_vars, tool_vars>>

\* ------------------------------------------------------------------------
\* DDQNAgent
\* ------------------------------------------------------------------------
deque_append_unbounded(q, x, maxlen) == Append(q, x)

deque_append_drop_newest(q, x, maxlen) ==
    IF Len(q) >= maxlen THEN Append(SubSeq(q, 1, Len(q) - 1), x)
    ELSE Append(q, x)

\* collections.deque(maxlen=...).append
deque_append(q, x, maxlen) ==
    IF maxlen = 0 THEN <<>>
    ELSE IF Len(q) >= maxlen THEN Append(Tail(q), x)
    ELSE Append(q, x)

\* network.predict: the row of action-values for one state
predict(weights, s) == weights[s]

\* np.argmax / tf.argmax: first occurrence of the maximum
argmax(row) ==
    CHOOSE a \in DOMAIN row :
        /\ \A b \in DOMAIN row : row[b] <= row[a]
        /\ \A b \in DOMAIN row : b < a => row[b] < row[a]

\* target_network.set_weights(online_network.get_weights())
update_target(online) == online

\* DDQNAgent.__init__(..., epsilon_start, epsilon_end, ...); the freshly
\* built online network has any initial weights
AgentInit(eps_start, eps_end) ==
    /\ experience = <<>>
    /\ online_network \in Weights
    /\ target_network = update_target(online_network)
    /\ epsilon = eps_start
    /\ epsilon_decay =
         RatDivInt(RatSub(eps_start, eps_end), epsilon_decay_steps)
    /\ total_steps = 0
    /\ episodes = 0
    /\ episode_length = 0
    /\ steps_per_episode = <<>>
    /\ episode_reward = 0
    /\ rewards_history = <<>>
    /\ losses = <<>>
    /\ train = TRUE
    /\ this_state = 0
    /\ action = 0
    /\ minibatch = <<>>
    /\ targets = <<>>
    /\ q_values = <<>>
    /\ calls = <<>>
    /\ replay_calls = 0
    /\ select_calls = 0
    /\ last_sync = online_network
    /\ synced_at = 0
    /\ raised = "none"

\* the lists and the loop position before the training loop starts
DriverInit ==
    /\ pc = "loop"
    /\ episode = 0
    /\ episode_step = 0
    /\ next_state = 0
    /\ reward = 0
    /\ done = FALSE
    /\ navs = <<>>
    /\ market_navs = <<>>
    /\ diffs = <<>>
    /\ closed = FALSE
    /\ results = <<>>
    /\ resets = 0
    /\ env_steps = 0
    /\ memorize_calls = 0
    /\ closes = 0

\* no table has been built and no duration formatted
ToolInit ==
    /\ frames = <<>>
    /\ returned = 0
    /\ called = <<>>
    /\ total = 0
    /\ formatted = <<>>

\* the branch of epsilon_greedy_policy: TRUE when a random action is drawn
explores(draw, eps) == RatLeq(draw, eps)

epsilon_greedy_policy_counts_training(state, draw, choice) ==
    /\ total_steps' = IF train THEN total_steps + 1 ELSE total_steps
    /\ select_calls' = select_calls + 1
    /\ this_state' = state
    /\ action' = IF explores(draw, epsilon)
                 THEN choice
                 ELSE argmax(predict(online_network, state))
    /\ UNCHANGED <<experience, online_network, target_network,
                   epsilon, epsilon_decay,
                   episodes, episode_length, episode_reward,
                   steps_per_episode, rewards_history, losses, train,
                   minibatch, targets, q_values,
                   calls, replay_calls, last_sync,
                   synced_at, raised>>

\* DDQNAgent.epsilon_greedy_policy(state); draw is np.random.rand(),
\* choice is np.random.choice(num_actions)
epsilon_greedy_policy(state, draw, choice) ==
    /\ total_steps' = total_steps + 1
    /\ select_calls' = select_calls + 1
    /\ this_state' = state
    /\ action' = IF explores(draw, epsilon)
                 THEN choice
                 ELSE argmax(predict(online_network, state))
    /\ UNCHANGED <<experience, online_network, target_network,
                   epsilon, epsilon_decay,
                   episodes, episode_length, episode_reward,
                   steps_per_episode, rewards_history, losses, train,
                   minibatch, targets, q_values,
                   calls, replay_calls, last_sync,
                   synced_at, raised>>

decayed_epsilon_linear_only(eps, n_episodes) == RatSub(eps, epsilon_decay)

decayed_epsilon_late(eps, n_episodes) ==
    IF n_episodes <= epsilon_decay_steps
    THEN RatSub(eps, epsilon_decay)
    ELSE RatMul(eps, epsilon_exponential_decay)

decayed_epsilon_rising(eps, n_episodes) ==
    IF n_episodes < epsilon_decay_steps
    THEN RatAdd(eps, epsilon_decay)
    ELSE RatMul(eps, epsilon_exponential_decay)

\* the epsilon schedule applied at the end of an episode in training mode
decayed_epsilon(eps, n_episodes) ==
    IF n_episodes < epsilon_decay_steps
    THEN RatSub(eps, epsilon_decay)
    ELSE RatMul(eps, epsilon_exponential_decay)

\* the episode total appended to rewards_history by a terminal call
\* carrying reward r
finished_episode_reward(r) == episode_reward

\* the episode length appended to steps_per_episode by a terminal call
finished_episode_length == episode_length

memorize_transition_training_only(s, a, r, s_prime, not_done) ==
    /\ IF not_done # 0
       THEN /\ episode_reward' = episode_reward + r
            /\ episode_length' = episode_length + 1
            /\ UNCHANGED <<epsilon, episodes, rewards_history,
                           steps_per_episode>>
       ELSE /\ epsilon' = IF train THEN decayed_epsilon(epsilon, episodes)
                          ELSE epsilon
            /\ episodes' = episodes + 1
            /\ rewards_history' =
                 Append(rewards_history, finished_episode_reward(r))
            /\ steps_per_episode' =
                 Append(steps_per_episode, finished_episode_length)
            /\ episode_reward' = 0
            /\ episode_length' = 0
    /\ experience' = IF train
                     THEN deque_append(experience,
                                       Transition(s, a, r, s_prime, not_done),
                                       replay_capacity)
                     ELSE experience
    /\ UNCHANGED <<online_network, target_network,
                   epsilon_decay, total_steps, losses, train,
                   this_state, action, minibatch, targets, q_values,
                   replay_calls, select_calls, last_sync,
                   synced_at, raised>>

memorize_transition_decays_always(s, a, r, s_prime, not_done) ==
    /\ IF not_done # 0
       THEN /\ episode_reward' = episode_reward + r
            /\ episode_length' = episode_length + 1
            /\ UNCHANGED <<epsilon, episodes, rewards_history,
                           steps_per_episode>>
       ELSE /\ epsilon' = decayed_epsilon(epsilon, episodes)
            /\ episodes' = episodes + 1
            /\ rewards_history' =
                 Append(rewards_history, finished_episode_reward(r))
            /\ steps_per_episode' =
                 Append(steps_per_episode, finished_episode_length)
            /\ episode_reward' = 0
            /\ episode_length' = 0
    /\ experience' = deque_append(experience,
                                  Transition(s, a, r, s_prime, not_done),
                                  replay_capacity)
    /\ UNCHANGED <<online_network, target_network,
                   epsilon_decay, total_steps, losses, train,
                   this_state, action, minibatch, targets, q_values,
                   replay_calls, select_calls, last_sync,
                   synced_at, raised>>

memorize_transition_keeps_length(s, a, r, s_prime, not_done) ==
    /\ IF not_done # 0
       THEN /\ episode_reward' = episode_reward + r
            /\ episode_length' = episode_length + 1
            /\ UNCHANGED <<epsilon, episodes, rewards_history,
                           steps_per_episode>>
       ELSE /\ epsilon' = IF train THEN decayed_epsilon(epsilon, episodes)
                          ELSE epsilon
            /\ episodes' = episodes + 1
            /\ rewards_history' =
                 Append(rewards_history, finished_episode_reward(r))
            /\ steps_per_episode' =
                 Append(steps_per_episode, finished_episode_length)
            /\ episode_reward' = 0
            /\ episode_length' = episode_length
    /\ experience' = deque_append(experience,
                                  Transition(s, a, r, s_prime, not_done),
                                  replay_capacity)
    /\ UNCHANGED <<online_network, target_network,
                   epsilon_decay, total_steps, losses, train,
                   this_state, action, minibatch, targets, q_values,
                   replay_calls, select_calls, last_sync,
                   synced_at, raised>>

\* DDQNAgent.memorize_transition(s, a, r, s_prime, not_done)
memorize_transition(s, a, r, s_prime, not_done) ==
    /\ IF not_done # 0
       THEN /\ episode_reward' = episode_reward + r
            /\ episode_length' = episode_length + 1
            /\ UNCHANGED <<epsilon, episodes, rewards_history,
                           steps_per_episode>>
       ELSE /\ epsilon' = IF train THEN decayed_epsilon(epsilon, episodes)
                          ELSE epsilon
            /\ episodes' = episodes + 1
            /\ rewards_history' =
                 Append(rewards_history, finished_episode_reward(r))
            /\ steps_per_episode' =
                 Append(steps_per_episode, finished_episode_length)
            /\ episode_reward' = 0
            /\ episode_length' = 0
    /\ experience' = deque_append(experience,
                                  Transition(s, a, r, s_prime, not_done),
                                  replay_capacity)
    /\ UNCHANGED <<online_network, target_network,
                   epsilon_decay, total_steps, losses, train,
                   this_state, action, minibatch, targets, q_values,
                   replay_calls, select_calls, last_sync,
                   synced_at, raised>>

\* assignment to the agent's train flag by its user
set_train(flag) ==
    /\ train' = flag
    /\ UNCHANGED <<experience, online_network, target_network,
                   epsilon, epsilon_decay,
                   total_steps, episodes, episode_length, episode_reward,
                   steps_per_episode, rewards_history, losses,
                   this_state, action, minibatch, targets, q_values,
                   calls, replay_calls, select_calls, last_sync,
                   synced_at, raised>>

Samples_with_replacement(n, k) == [1 .. k -> 1 .. n]

\* random.sample(population, k): k distinct positions, in a random order
Samples(n, k) ==
    {f \in [1 .. k -> 1 .. n] : \A i, j \in 1 .. k : i # j => f[i] # f[j]}

\* random.sample raises ValueError when the sample is larger than the
\* population
larger_than_population(n, k) == k > n

target_q_value_own_max(online, target, s_prime) ==
    predict(target, s_prime)[argmax(predict(target, s_prime))]

\* best_actions = argmax of the online network on next_states;
\* target_q_values = the target network's value at those actions
target_q_value(online, target, s_prime) ==
    predict(target, s_prime)[argmax(predict(online, s_prime))]

\* targets = rewards + not_done * gamma * target_q_values, for one sample
regression_target(t, online, target) ==
    RatAdd(FromInt(t.r),
           RatMul(FromInt(t.not_done),
                  RatMul(gamma,
                         FromInt(target_q_value(online, target, t.s_prime)))))

training_matrix_whole_row(mb, tg, online) ==
    [i \in DOMAIN mb |-> [a \in Actions |-> tg[i]]]

\* q_values = online_network.predict_on_batch(states);
\* q_values[[idx, actions]] = targets
training_matrix(mb, tg, online) ==
    [i \in DOMAIN mb |->
        [a \in Actions |-> IF a = mb[i].a THEN tg[i]
                           ELSE FromInt(predict(online, mb[i].s)[a])]]

too_few_or_equal(n_experience) == batch_size >= n_experience

too_few_steps(n_experience) == batch_size > total_steps

\* the early return of experience_replay
too_few(n_experience) == batch_size > n_experience

sync_due_one_late(steps) == steps % tau = 1

sync_due_inverted(steps) == steps % tau # 0

sync_due_always(steps) == TRUE

\* the condition under which a learning update synchronizes the target
sync_due(steps) == steps % tau = 0

\* DDQNAgent.experience_replay(); idx is the outcome of random.sample
\* (which raises ValueError when asked for more than the population holds),
\* trained the weights left by train_on_batch and loss the value it returns
experience_replay(idx, trained, loss) ==
    /\ replay_calls' = replay_calls + 1
    /\ IF too_few(Len(experience))
       THEN UNCHANGED <<online_network, target_network, losses,
                        minibatch, targets, q_values, last_sync,
                   synced_at, raised>>
       ELSE IF larger_than_population(Len(experience), batch_size)
       THEN /\ raised' = "ValueError"
            /\ UNCHANGED <<online_network, target_network, losses,
                           minibatch, targets, q_values, last_sync,
                           synced_at>>
       ELSE LET mb == [i \in 1 .. batch_size |-> experience[idx[i]]]
                tg == [i \in 1 .. batch_size |->
                         regression_target(mb[i], online_network,
                                           target_network)]
            IN  /\ idx \in Samples(Len(experience), batch_size)
                /\ minibatch' = mb
                /\ targets' = tg
                /\ q_values' = training_matrix(mb, tg, online_network)
                /\ online_network' = trained
                /\ losses' = Append(losses, loss)
                /\ target_network' =
                     IF sync_due(total_steps)
                     THEN update_target(online_network')
                     ELSE target_network
                /\ last_sync' = IF total_steps % tau = 0
                                THEN online_network' ELSE last_sync
                /\ synced_at' = IF sync_due(total_steps)
                                 THEN total_steps ELSE synced_at
                /\ UNCHANGED raised
    /\ UNCHANGED <<experience, epsilon, epsilon_decay,
                   total_steps, episodes, episode_length, episode_reward,
                   steps_per_episode, rewards_history, train,
                   this_state, action, calls, select_calls>>

\* ------------------------------------------------------------------------
\* Spec: the agent in training mode under any sequence of select-action,
\* memorize and experience-replay calls
\* ------------------------------------------------------------------------
Init == AgentInit(epsilon_start, epsilon_end) /\ DriverInit /\ ToolInit

SelectAction ==
    \E draw \in Draws :
        /\ total_steps < MaxSelect
        /\ epsilon_greedy_policy(0, draw, 0)
        /\ UNCHANGED <<driver_vars, tool_vars>>

Memorize ==
    \E a \in Actions, nd \in NotDone :
        /\ Len(calls) < MaxCalls
        /\ memorize_transition(0, a, 1, a, nd)
        /\ calls' = Append(calls, Transition(0, a, 1, a, nd))
        /\ UNCHANGED <<driver_vars, tool_vars>>

\* the samples that keep the buffer's order
OrderedSamples(n, k) ==
    IF k > n THEN {<<>>}
    ELSE {f \in [1 .. k -> 1 .. n] : \A i \in 1 .. (k - 1) : f[i] < f[i + 1]}

Replay ==
    \E idx \in OrderedSamples(Len(experience), batch_size),
       trained \in Weights, loss \in LossValues :
        /\ replay_calls < MaxReplay
        /\ experience_replay(idx, trained, loss)
        /\ UNCHANGED <<driver_vars, tool_vars>>

Next == SelectAction \/ Memorize \/ Replay

Spec == Init /\ [][Next]_vars

\* ------------------------------------------------------------------------
\* SpecMemo: transition-recording calls with the train flag switched at will
\* ------------------------------------------------------------------------
InitialWeights == CHOOSE w \in Weights : argmax(predict(w, 0)) = 0

MemoInit ==
    /\ AgentInit(epsilon_start, epsilon_end)
    /\ DriverInit
    /\ ToolInit
    /\ online_network = InitialWeights

MemoMemorize ==
    \E a \in Actions, r \in Rewards, nd \in NotDone :
        /\ Len(calls) < MaxMemorize
        /\ memorize_transition(0, a, r, 1, nd)
        /\ calls' = Append(calls, Transition(0, a, r, 1, nd))
        /\ UNCHANGED <<driver_vars, tool_vars>>

MemoSetTrain ==
    /\ Len(calls) < MaxMemorize
    /\ set_train(~train)
    /\ UNCHANGED <<driver_vars, tool_vars>>

MemoNext == MemoMemorize \/ MemoSetTrain

SpecMemo == MemoInit /\ [][MemoNext]_vars

\* ------------------------------------------------------------------------
\* SpecTrain: transition-recording calls of an agent left in training mode
\* ------------------------------------------------------------------------
TrainMemorize ==
    \E r \in Rewards, nd \in NotDone :
        /\ Len(calls) < MaxEpisodes
        /\ memorize_transition(0, 0, r, 1, nd)
        /\ calls' = Append(calls, Transition(0, 0, r, 1, nd))
        /\ UNCHANGED <<driver_vars, tool_vars>>

TrainNext == TrainMemorize

SpecTrain == MemoInit /\ [][TrainNext]_vars

\* ------------------------------------------------------------------------
\* SpecPolicy: action selection, for an agent built with the configured
\* exploration schedule or with no exploration at all (epsilon = 0)
\* ------------------------------------------------------------------------
PolicyInit ==
    /\ \/ AgentInit(epsilon_start, epsilon_end)
       \/ AgentInit(FromInt(0), FromInt(0))
    /\ DriverInit
    /\ ToolInit

PolicySelect ==
    \E s \in States, draw \in Draws, choice \in Actions :
        /\ total_steps < MaxSelect
        /\ epsilon_greedy_policy(s, draw, choice)
        /\ UNCHANGED <<driver_vars, tool_vars>>

PolicyEpisodeEnd ==
    \E r \in Rewards :
        /\ Len(calls) < MaxEpisodes
        /\ memorize_transition(this_state, action, r, 0, 0)
        /\ calls' = Append(calls, Transition(this_state, action, r, 0, 0))
        /\ UNCHANGED <<driver_vars, tool_vars>>

PolicySetTrain ==
    /\ Len(calls) < MaxEpisodes
    /\ set_train(~train)
    /\ UNCHANGED <<driver_vars, tool_vars>>

PolicyNext == PolicySelect \/ PolicyEpisodeEnd \/ PolicySetTrain

SpecPolicy == PolicyInit /\ [][PolicyNext]_vars

\* ------------------------------------------------------------------------
\* SpecDriver: the training loop
\* ------------------------------------------------------------------------
Max(a, b) == IF a > b THEN a ELSE b

\* diffs[-25:]
last_diffs(d) == SubSeq(d, Max(1, Len(d) - EarlyStopWindow + 1), Len(d))

early_stop_at_window(d) ==
    /\ Len(d) >= EarlyStopWindow
    /\ \A i \in DOMAIN last_diffs(d) : last_diffs(d)[i] > 0

\* len(diffs) > 25 and all([r > 0 for r in diffs[-25:]])
early_stop(d) ==
    /\ Len(d) > EarlyStopWindow
    /\ \A i \in DOMAIN last_diffs(d) : last_diffs(d)[i] > 0

\* for episode in range(1, max_episodes + 1):
\*     this_state = trading_environment.reset()
StartEpisode ==
    /\ pc = "loop"
    /\ episode < max_episodes
    /\ episode' = episode + 1
    /\ this_state' \in ResetStates
    /\ episode_step' = 0
    /\ pc' = "select"
    /\ resets' = resets + 1
    /\ UNCHANGED <<env_steps, memorize_calls, closes>>
    /\ UNCHANGED <<next_state, reward, done, navs, market_navs, diffs,
                   closed, results, tool_vars>>
    /\ UNCHANGED <<experience, online_network, target_network,
                   epsilon, epsilon_decay,
                   total_steps, episodes, episode_length, episode_reward,
                   steps_per_episode, rewards_history, losses, train,
                   action, minibatch, targets, q_values,
                   calls, replay_calls, select_calls, last_sync,
                   synced_at, raised>>

\* the outer loop has run max_episodes times
LoopExhausted ==
    /\ pc = "loop"
    /\ episode >= max_episodes
    /\ pc' = "close"
    /\ UNCHANGED <<episode, episode_step, next_state, reward, done,
                   navs, market_navs, diffs, closed, results, tool_vars>>
    /\ UNCHANGED <<resets, env_steps, memorize_calls, closes>>
    /\ UNCHANGED agent_vars

\* action = ddqn.epsilon_greedy_policy(this_state.reshape(-1, state_dim))
DriverSelect ==
    \E draw \in DriverDraws, choice \in DriverChoices :
        /\ pc = "select"
        /\ epsilon_greedy_policy(this_state, draw, choice)
        /\ pc' = "step"
        /\ UNCHANGED <<episode, episode_step, next_state, reward, done,
                       navs, market_navs, diffs, closed, results, tool_vars>>
        /\ UNCHANGED <<resets, env_steps, memorize_calls, closes>>

\* next_state, reward, done, _ = trading_environment.step(action)
EnvStep ==
    /\ pc = "step"
    /\ next_state' \in StepStates
    /\ reward' \in StepRewards
    /\ done' \in StepDone
    /\ pc' = "memorize"
    /\ env_steps' = env_steps + 1
    /\ UNCHANGED <<resets, memorize_calls, closes>>
    /\ UNCHANGED <<episode, episode_step, navs, market_navs, diffs, closed, results, tool_vars>>
    /\ UNCHANGED agent_vars

DriverMemorize_breaks_on_done ==
    /\ pc = "memorize"
    /\ memorize_transition(this_state, action, reward, next_state,
                           IF done THEN 0 ELSE 1)
    /\ pc' = IF done THEN "advance" ELSE "replay"
    /\ memorize_calls' = memorize_calls + 1
    /\ UNCHANGED <<resets, env_steps, closes>>
    /\ UNCHANGED <<calls, episode, episode_step, next_state, reward, done,
                   navs, market_navs, diffs, closed, results, tool_vars>>

\* ddqn.memorize_transition(this_state, action, reward, next_state,
\*                          0.0 if done else 1.0)
DriverMemorize ==
    /\ pc = "memorize"
    /\ memorize_transition(this_state, action, reward, next_state,
                           IF done THEN 0 ELSE 1)
    /\ pc' = "replay"
    /\ memorize_calls' = memorize_calls + 1
    /\ UNCHANGED <<resets, env_steps, closes>>
    /\ UNCHANGED <<calls, episode, episode_step, next_state, reward, done,
                   navs, market_navs, diffs, closed, results, tool_vars>>

\* the sample made of the newest k transitions, oldest first
NewestSample(n, k) ==
    IF k > n THEN {<<>>} ELSE {[i \in 1 .. k |-> n - k + i]}

\* if ddqn.train: ddqn.experience_replay(); in the loop every gradient step
\* moves the online weights
DriverReplay ==
    /\ pc = "replay"
    /\ IF train
       THEN \E idx \in NewestSample(Len(experience), batch_size),
               trained \in Weights \ {online_network},
               loss \in LossValues :
                experience_replay(idx, trained, loss)
       ELSE UNCHANGED agent_vars
    /\ pc' = "advance"
    /\ UNCHANGED <<episode, episode_step, next_state, reward, done,
                   navs, market_navs, diffs, closed, results, tool_vars>>
    /\ UNCHANGED <<resets, env_steps, memorize_calls, closes>>

\* if done: break
\* this_state = next_state, and the next round of the inner loop
DriverAdvance ==
    /\ pc = "advance"
    /\ IF done
       THEN /\ pc' = "episode_end"
            /\ UNCHANGED <<this_state, episode_step>>
       ELSE /\ this_state' = next_state
            /\ IF episode_step + 1 < max_episode_steps
               THEN /\ episode_step' = episode_step + 1
                    /\ pc' = "select"
               ELSE /\ pc' = "episode_end"
                    /\ UNCHANGED episode_step
    /\ UNCHANGED <<episode, next_state, reward, done,
                   navs, market_navs, diffs, closed, results, tool_vars>>
    /\ UNCHANGED <<resets, env_steps, memorize_calls, closes>>
    /\ UNCHANGED <<experience, online_network, target_network,
                   epsilon, epsilon_decay,
                   total_steps, episodes, episode_length, episode_reward,
                   steps_per_episode, rewards_history, losses, train,
                   action, minibatch, targets, q_values,
                   calls, replay_calls, select_calls, last_sync,
                   synced_at, raised>>

EpisodeEnd_on_done_only ==
    \E nav \in Navs, market_nav \in MarketNavs :
        /\ pc = "episode_end"
        /\ navs' = IF done THEN Append(navs, nav) ELSE navs
        /\ market_navs' =
             IF done THEN Append(market_navs, market_nav) ELSE market_navs
        /\ diffs' = IF done THEN Append(diffs, nav - market_nav) ELSE diffs
        /\ pc' = IF early_stop(diffs') THEN "close" ELSE "loop"
        /\ UNCHANGED <<episode, episode_step, next_state, reward, done,
                       closed, results, tool_vars>>
        /\ UNCHANGED <<resets, env_steps, memorize_calls, closes>>
        /\ UNCHANGED agent_vars

\* the end of an episode's body: nav and market_nav are read from the
\* environment's ledger, the three lists grow and the loop breaks when
\* the early-stopping condition holds
EpisodeEnd ==
    \E nav \in Navs, market_nav \in MarketNavs :
        /\ pc = "episode_end"
        /\ navs' = Append(navs, nav)
        /\ market_navs' = Append(market_navs, market_nav)
        /\ diffs' = Append(diffs, nav - market_nav)
        /\ pc' = IF early_stop(diffs') THEN "close" ELSE "loop"
        /\ UNCHANGED <<episode, episode_step, next_state, reward, done,
                       closed, results, tool_vars>>
        /\ UNCHANGED <<resets, env_steps, memorize_calls, closes>>
        /\ UNCHANGED agent_vars

Close_reopens ==
    /\ pc = "close"
    /\ closed' = TRUE
    /\ closes' = closes + 1
    /\ UNCHANGED <<resets, env_steps, memorize_calls>>
    /\ pc' = "loop"
    /\ UNCHANGED <<episode, episode_step, next_state, reward, done,
                   navs, market_navs, diffs, results, tool_vars>>
    /\ UNCHANGED agent_vars

\* trading_environment.close()
Close ==
    /\ pc = "close"
    /\ closed' = TRUE
    /\ closes' = closes + 1
    /\ UNCHANGED <<resets, env_steps, memorize_calls>>
    /\ pc' = "done"
    /\ UNCHANGED <<episode, episode_step, next_state, reward, done,
                   navs, market_navs, diffs, results, tool_vars>>
    /\ UNCHANGED agent_vars

\* a missing value of a table column, and a present one
NaN == <<>>

Value(x) == <<x>>

rolling_sum_partial(flags, window) ==
    [i \in 1 .. Len(flags) |->
        Value(Cardinality({j \in 1 .. i : j > i - window /\ flags[j]}))]

\* series.rolling(window).sum() of a boolean series
rolling_sum(flags, window) ==
    [i \in 1 .. Len(flags) |->
        IF i < window THEN NaN
        ELSE Value(Cardinality({j \in (i - window + 1) .. i : flags[j]}))]

\* pd.DataFrame({'Episode': list(range(1, episode + 1)), 'Agent': navs,
\*               'Market': market_navs, 'Difference': diffs})
\*   .set_index('Episode'), then the 'Strategy Wins (%)' column; columns
\* of unequal length make the constructor raise
results_table(n, agent, market, difference) ==
    IF Len(agent) # n \/ Len(market) # n \/ Len(difference) # n
    THEN <<"ValueError">>
    ELSE LET won == [i \in 1 .. n |-> difference[i] > 0]
             count == rolling_sum(won, RollingWindow)
         IN  [i \in 1 .. n |->
                 [Episode |-> i, Agent |-> agent[i], Market |-> market[i],
                  Difference |-> difference[i], Wins |-> count[i]]]

\* the cell that builds the results table, run after the loop
BuildResults ==
    /\ pc = "done"
    /\ results' = results_table(episode, navs, market_navs, diffs)
    /\ pc' = "results"
    /\ UNCHANGED <<episode, episode_step, next_state, reward, done,
                   navs, market_navs, diffs, closed, tool_vars>>
    /\ UNCHANGED <<resets, env_steps, memorize_calls, closes>>
    /\ UNCHANGED agent_vars

DriverNext ==
    \/ StartEpisode
    \/ LoopExhausted
    \/ DriverSelect
    \/ EnvStep
    \/ DriverMemorize
    \/ DriverReplay
    \/ DriverAdvance
    \/ EpisodeEnd
    \/ Close
    \/ BuildResults

SpecDriver == MemoInit /\ [][DriverNext]_vars

\* the training loop as a sequential program: every statement that can run
\* next eventually runs (calls into the environment and the agent return)
SpecDriverFair == SpecDriver /\ WF_vars(DriverNext)

\* ------------------------------------------------------------------------
\* SpecSample: experience replay with every outcome of random.sample, up
\* to the first learning update
\* ------------------------------------------------------------------------
SampleSelect ==
    \E draw \in DriverDraws :
        /\ total_steps < tau
        /\ epsilon_greedy_policy(0, draw, 1)
        /\ UNCHANGED <<driver_vars, tool_vars>>

SampleMemorize ==
    \E a \in Actions :
        /\ Len(calls) < MaxCalls
        /\ memorize_transition(0, a, 1, a, a)
        /\ calls' = Append(calls, Transition(0, a, 1, a, a))
        /\ UNCHANGED <<driver_vars, tool_vars>>

SampleReplay ==
    \E idx \in IF larger_than_population(Len(experience), batch_size)
               THEN {<<>>}
               ELSE Samples(Len(experience), batch_size),
       trained \in Weights \ {online_network}, loss \in LossValues :
        /\ replay_calls < MaxReplay
        /\ losses = <<>>
        /\ experience_replay(idx, trained, loss)
        /\ UNCHANGED <<driver_vars, tool_vars>>

SampleNext ==
    \/ SampleSelect
    \/ SampleMemorize
    \/ SampleReplay

SpecSample == MemoInit /\ [][SampleNext]_vars

\* ------------------------------------------------------------------------
\* SpecAgent: every operation of the agent, called in any order, with the
\* train flag switched at will
\* ------------------------------------------------------------------------
AgentSelect ==
    \E draw \in Draws :
        /\ total_steps < MaxSelect
        /\ epsilon_greedy_policy(0, draw, 1)
        /\ UNCHANGED <<driver_vars, tool_vars>>

AgentMemorize ==
    \E nd \in NotDone :
        /\ Len(calls) < MaxEpisodes
        /\ memorize_transition(this_state, action, 1, 0, nd)
        /\ calls' = Append(calls, Transition(this_state, action, 1, 0, nd))
        /\ UNCHANGED <<driver_vars, tool_vars>>

AgentReplay ==
    \E idx \in NewestSample(Len(experience), batch_size),
       trained \in Weights \ {online_network}, loss \in LossValues :
        /\ replay_calls < MaxReplay
        /\ experience_replay(idx, trained, loss)
        /\ UNCHANGED <<driver_vars, tool_vars>>

AgentSetTrain ==
    /\ set_train(~train)
    /\ UNCHANGED <<driver_vars, tool_vars>>

AgentNext == AgentSelect \/ AgentMemorize \/ AgentReplay \/ AgentSetTrain

SpecAgent == MemoInit /\ [][AgentNext]_vars

\* ------------------------------------------------------------------------
\* SpecTable: the DataFrame helpers mask and flatten_cols. A table has its
\* column labels, its index and one row of cells per index entry; a
\* two-level label is a pair of strings, a string a sequence of characters.
\* ------------------------------------------------------------------------
Whitespace == {" ", "\t"}

\* str.strip(): leading and trailing whitespace removed
RECURSIVE lstrip(_)
lstrip(str) ==
    IF str # <<>> /\ Head(str) \in Whitespace THEN lstrip(Tail(str)) ELSE str

RECURSIVE rstrip(_)
rstrip(str) ==
    IF str # <<>> /\ str[Len(str)] \in Whitespace
    THEN rstrip(SubSeq(str, 1, Len(str) - 1)) ELSE str

strip(str) == lstrip(rstrip(str))

\* ' '.join(parts), parts being a sequence of strings
RECURSIVE join(_)
join(parts) ==
    IF parts = <<>> THEN <<>>
    ELSE IF Len(parts) = 1 THEN parts[1]
    ELSE parts[1] \o <<" ">> \o join(Tail(parts))

\* iterating over a label: a tuple yields its strings, a string yields its
\* characters
parts_of(col, levels) ==
    IF levels > 1 THEN col ELSE [i \in 1 .. Len(col) |-> <<col[i]>>]

flat_label_unstripped(col, levels) == join(parts_of(col, levels))

\* ' '.join(col).strip()
flat_label(col, levels) == strip(join(parts_of(col, levels)))

\* the rows of seq at the positions where flags is TRUE, in order
RECURSIVE take(_, _)
take(seq, flags) ==
    IF seq = <<>> THEN <<>>
    ELSE IF Head(flags) THEN <<Head(seq)>> \o take(Tail(seq), Tail(flags))
    ELSE take(Tail(seq), Tail(flags))

\* the position of the column labelled key
position(df, key) == CHOOSE j \in 1 .. Len(df.columns) : df.columns[j] = key

\* df[key]: the cells of one column
column(df, key) == [i \in 1 .. Len(df.data) |-> df.data[i][position(df, key)]]

\* function(df[key]): the predicate, given as the set of values it accepts,
\* applied to each cell of the column
apply(function, series) == [i \in 1 .. Len(series) |-> series[i] \in function]

Reverse(seq) == [i \in 1 .. Len(seq) |-> seq[Len(seq) + 1 - i]]

mask_newest_first(df, key, function) ==
    LET flags == apply(function, column(df, key))
    IN  [df EXCEPT !.index = Reverse(take(df.index, flags)),
                   !.data = Reverse(take(df.data, flags))]

\* mask(df, key, function): df[function(df[key])], a new table
mask(df, key, function) ==
    LET flags == apply(function, column(df, key))
    IN  [df EXCEPT !.index = take(df.index, flags),
                   !.data = take(df.data, flags)]

flatten_cols_unstripped(df) ==
    [df EXCEPT !.columns = [j \in 1 .. Len(df.columns) |->
                              flat_label_unstripped(df.columns[j], df.levels)],
               !.levels = 1]

\* flatten_cols(df): df.columns = [' '.join(col).strip() for col in ...]
flatten_cols(df) ==
    [df EXCEPT !.columns = [j \in 1 .. Len(df.columns) |->
                              flat_label(df.columns[j], df.levels)],
               !.levels = 1]

\* the call df.mask(key, function) on the table referenced by ref
call_mask(ref, key, function) ==
    /\ frames' = Append(frames, mask(frames[ref], key, function))
    /\ returned' = Len(frames')
    /\ called' = [op |-> "mask", df |-> ref, key |-> key,
                  function |-> function]
    /\ UNCHANGED <<total, formatted>>

\* the call df.flatten_cols() on the table referenced by ref
call_flatten_cols(ref) ==
    /\ frames' = [frames EXCEPT ![ref] = flatten_cols(frames[ref])]
    /\ returned' = ref
    /\ called' = [op |-> "flatten_cols", df |-> ref, key |-> <<>>,
                  function |-> {}]
    /\ UNCHANGED <<total, formatted>>

\* the tables the helpers are applied to
Labels ==
    {<<"b">>} \X {<<"c">>} \cup {<<" ", "b">>} \X {<<"c", "\t">>}
    \cup {<<>>} \X {<<"c">>} \cup {<<"b">>} \X {<<>>}

CellValues == 1 .. 4

Rows == {<<v, v + 4>> : v \in CellValues}

Tables ==
    {[columns |-> <<<<<<"a">>, <<>>>>, label>>, levels |-> 2,
      index |-> [i \in 1 .. Len(d) |-> i], data |-> d] :
        label \in Labels,
        d \in UNION {[1 .. k -> Rows] : k \in 0 .. MaxRows}}

\* value > 2, value odd and below 4, and the predicate that is never true
Predicates == {{v \in 1 .. 8 : v > 2}, {1, 3}, {}}

TableInit ==
    /\ AgentInit(epsilon_start, epsilon_end)
    /\ online_network = InitialWeights
    /\ DriverInit
    /\ \E df \in Tables : frames = <<df>>
    /\ returned = 0
    /\ called = <<>>
    /\ total = 0
    /\ formatted = <<>>

TableMask ==
    \E ref \in DOMAIN frames, function \in Predicates :
        \E key \in {frames[ref].columns[j] : j \in DOMAIN frames[ref].columns} :
            /\ Len(frames) = 1
            /\ call_mask(ref, key, function)
            /\ UNCHANGED <<agent_vars, driver_vars>>

TableFlatten ==
    \E ref \in DOMAIN frames :
        /\ frames[ref].levels > 1
        /\ call_flatten_cols(ref)
        /\ UNCHANGED <<agent_vars, driver_vars>>

TableNext == TableMask \/ TableFlatten

SpecTable == TableInit /\ [][TableNext]_vars

\* ------------------------------------------------------------------------
\* SpecTime: format_time. A duration is a whole number of ticks, with
\* TicksPerSecond ticks to the second; a text is a sequence of characters.
\* ------------------------------------------------------------------------
DigitChars == <<"0", "1", "2", "3", "4", "5", "6", "7", "8", "9">>

\* str of a natural number
RECURSIVE decimal(_)
decimal(n) ==
    IF n < 10 THEN <<DigitChars[n + 1]>>
    ELSE Append(decimal(n \div 10), DigitChars[(n % 10) + 1])

\* rounding to the nearest whole number, ties to the even one, of ticks/per
round_half_even(ticks, per) ==
    LET q == ticks \div per
        r == ticks % per
    IN  IF 2 * r < per THEN q
        ELSE IF 2 * r > per THEN q + 1
        ELSE IF q % 2 = 0 THEN q ELSE q + 1

\* '{:02.0f}'.format(x) for x = ticks/per: no decimals, zero-padded to
\* two characters
field(ticks, per) ==
    LET digits == decimal(round_half_even(ticks, per))
    IN  IF Len(digits) < 2 THEN <<"0">> \o digits ELSE digits

format_time_total_minutes(t) ==
    LET m_ == t \div (60 * TicksPerSecond)
        s == t % (60 * TicksPerSecond)
        h == m_ \div 60
    IN  field(h, 1) \o <<":">> \o field(m_, 1) \o <<":">>
          \o field(s, TicksPerSecond)

\* format_time(t): m_, s = divmod(t, 60); h, m = divmod(m_, 60)
format_time(t) ==
    LET m_ == t \div (60 * TicksPerSecond)
        s == t % (60 * TicksPerSecond)
        h == m_ \div 60
        m == m_ % 60
    IN  field(h, 1) \o <<":">> \o field(m, 1) \o <<":">>
          \o field(s, TicksPerSecond)

\* the call format_time(total)
call_format_time ==
    /\ formatted' = format_time(total)
    /\ UNCHANGED <<frames, returned, called, total>>

\* the durations formatted: every duration up to MaxSeconds, and some of
\* a hundred hours and more
Durations ==
    0 .. (MaxSeconds * TicksPerSecond)
    \cup {(360000 + d) * TicksPerSecond : d \in {0, 59, 3599, 3600}}

TimeInit ==
    /\ AgentInit(epsilon_start, epsilon_end)
    /\ online_network = InitialWeights
    /\ DriverInit
    /\ frames = <<>>
    /\ returned = 0
    /\ called = <<>>
    /\ total \in Durations
    /\ formatted = <<>>

TimeFormat ==
    /\ formatted = <<>>
    /\ call_format_time
    /\ UNCHANGED <<agent_vars, driver_vars>>

TimeNext == TimeFormat

SpecTime == TimeInit /\ [][TimeNext]_vars

\* ------------------------------------------------------------------------
\* Properties
\* ------------------------------------------------------------------------
Min(a, b) == IF a < b THEN a ELSE b

RECURSIVE SumRewards(_, _, _)
SumRewards(log, lo, hi) ==
    IF lo > hi THEN 0 ELSE log[hi].r + SumRewards(log, lo, hi - 1)

\* the index of the last call before call n that ended an episode, or 0
PreviousTerminal(log, n) ==
    LET ends == {j \in 1 .. (n - 1) : log[j].not_done = 0}
    IN  IF ends = {} THEN 0
        ELSE CHOOSE j \in ends : \A k \in ends : k <= j

\* a step in which experience_replay was called
ReplayStep == replay_calls' = replay_calls + 1

\* a step in which experience_replay ran a learning update
UpdateStep == Len(losses') = Len(losses) + 1

\* C1: whatever transitions are recorded, and whatever the train flag, the
\* replay buffer never holds more than replay_capacity transitions.
C1_BufferBounded == Len(experience) <= replay_capacity

C1_Witness ==
    /\ Len(calls) > replay_capacity
    /\ Len(experience) = replay_capacity

\* C2: after n recording calls the buffer holds exactly the most recent
\* min(n, replay_capacity) transitions, in the order they were recorded.
C2_MostRecentInOrder ==
    LET n == Len(calls)
        k == Min(n, replay_capacity)
    IN  experience = SubSeq(calls, n - k + 1, n)

C2_Witness ==
    /\ Len(calls) = replay_capacity + 1
    /\ calls[1] # calls[2]
    /\ experience[1] = calls[2]
    /\ experience[replay_capacity] = calls[replay_capacity + 1]

\* C3: when a terminal call ends an episode, the entry appended to
\* rewards_history is the sum of the rewards of all the episode's calls, the
\* terminal one included, and the entry appended to steps_per_episode is
\* the number of those calls.
C3_EpisodeTotalsIncludeTerminal ==
    LET n == Len(calls)
        prev == PreviousTerminal(calls, n)
    IN  (n > 0 /\ calls[n].not_done = 0) =>
            /\ rewards_history[Len(rewards_history)]
                 = SumRewards(calls, prev + 1, n)
            /\ steps_per_episode[Len(steps_per_episode)] = n - prev

C5_ReplayNoOpBelowBatch ==
    [][(ReplayStep /\ Len(experience) < batch_size) =>
          /\ raised' = "none"
          /\ online_network' = online_network
          /\ target_network' = target_network
          /\ losses' = losses]_vars

C5_Witness ==
    /\ replay_calls > 0
    /\ Len(experience) < batch_size
    /\ Len(experience) > 0
    /\ total_steps = tau

\* C6: a learning update made while total_steps is a multiple of tau leaves
\* the target network equal to the online network as trained by that
\* update; made at any other step count it leaves the target alone.
C6_SyncOnTauMultiple ==
    [][UpdateStep =>
          IF total_steps % tau = 0
          THEN target_network' = online_network'
          ELSE target_network' = target_network]_vars

C6_Witness ==
    /\ Len(losses) = 2
    /\ total_steps = tau
    /\ target_network = online_network
    /\ target_network = last_sync

\* C7: the target network's weights are, in every state, the online
\* network's weights as of the most recent synchronization point
\* (construction, or a learning update at a multiple of tau).
C7_TargetFrozenBetweenSyncs == target_network = last_sync

C7_Witness ==
    /\ Len(losses) = 2
    /\ online_network # target_network

\* C8: the regression target of every sampled transition is
\* r + not_done * gamma * Q_target(s', argmax_a Q_online(s', a)), which is
\* r alone for a terminal transition.
C8_DoubleQTarget ==
    [][UpdateStep =>
          /\ DOMAIN targets' = 1 .. batch_size
          /\ DOMAIN minibatch' = 1 .. batch_size
          /\ \A i \in 1 .. batch_size :
               LET t == minibatch'[i]
                   best == argmax(online_network[t.s_prime])
                   boot == target_network[t.s_prime][best]
               IN  /\ \E p \in 1 .. Len(experience) : experience[p] = t
                   /\ targets'[i] =
                        RatAdd(FromInt(t.r),
                               RatMul(FromInt(t.not_done),
                                      RatMul(gamma, FromInt(boot))))
                   /\ t.not_done = 0 => targets'[i] = FromInt(t.r)]_vars

C8_Witness ==
    /\ losses # <<>>
    /\ \E i, j \in DOMAIN targets :
          /\ minibatch[i].not_done = 0
          /\ targets[i] = FromInt(minibatch[i].r)
          /\ minibatch[j].not_done = 1
          /\ targets[j] # FromInt(minibatch[j].r)

\* C10: with epsilon = 0 every call of epsilon_greedy_policy, whatever the
\* uniform draw, returns the first-occurrence argmax of the online
\* network's action-values for the given state.
C10_GreedyAtZeroEpsilon ==
    [][(total_steps' = total_steps + 1 /\ epsilon = FromInt(0)) =>
          action' = argmax(predict(online_network, this_state'))]_vars

\* C9: at the end of episode k the training loop stops early exactly when
\* k > EarlyStopWindow and each of the last EarlyStopWindow diffs is
\* strictly positive; otherwise it goes on to the loop header. Once stopped
\* it starts no further episode.
C9_EarlyStopping ==
    [][/\ pc = "episode_end" =>
            LET k == Len(diffs')
            IN  /\ k = episode
                /\ (pc' = "close") <=>
                      /\ k > EarlyStopWindow
                      /\ \A i \in (k - EarlyStopWindow + 1) .. k :
                            diffs'[i] > 0
                /\ pc' # "close" => pc' = "loop"
       /\ pc \in {"close", "done", "results"} =>
            /\ episode' = episode
            /\ pc' \in {"close", "done", "results"}]_vars

C9_Witness ==
    /\ pc = "done"
    /\ closed
    /\ episode = EarlyStopWindow + 1
    /\ episode < max_episodes
    /\ diffs[1] <= 0

\* C11: every epsilon_greedy_policy call adds exactly 1 to total_steps,
\* in either branch and whatever the train flag, and no other operation
\* changes it: total_steps is the number of select-action calls made so far
\* and never decreases.
C11_TotalStepsCountsSelects ==
    [][/\ total_steps' = total_steps + (select_calls' - select_calls)
       /\ total_steps = select_calls
       /\ total_steps' >= total_steps]_vars

C11_Witness ==
    /\ ~train
    /\ select_calls = MaxSelect
    /\ total_steps = MaxSelect
    /\ replay_calls > 0
    /\ Len(losses) > 0
    /\ episodes > 0

\* a step in which memorize_transition was called, and the transition passed
MemorizeStep == Len(calls') = Len(calls) + 1

LastCall == calls'[Len(calls')]

\* C12: while the train flag is false, epsilon_greedy_policy returns the
\* argmax of the online network's action-values for the state, whatever
\* epsilon is.
C12_GreedyWhenNotTraining ==
    [][(~train /\ select_calls' = select_calls + 1) =>
          action' = argmax(predict(online_network, this_state'))]_vars

\* C13: every memorize_transition call puts the transition made of its own
\* arguments at the newest end of the buffer, behind the transitions the
\* buffer held (less the oldest one when it was full), whether the call is
\* terminal or not and whether train is true or false.
C13_MemorizeAppendsOne ==
    [][MemorizeStep =>
          /\ Len(experience') > 0
          /\ experience'[Len(experience')] = LastCall
          /\ SubSeq(experience', 1, Len(experience') - 1) =
                IF Len(experience) < replay_capacity
                THEN experience ELSE Tail(experience)]_vars

C13_Witness ==
    /\ ~train
    /\ Len(calls) = replay_capacity + 1
    /\ calls[Len(calls)].not_done = 0
    /\ calls[1].not_done = 1
    /\ epsilon = epsilon_start
    /\ episodes = 1
    /\ experience[Len(experience)] = calls[Len(calls)]

\* C14: a terminal memorize_transition call with train false leaves epsilon
\* unchanged but adds one to episodes, appends the running episode reward
\* and length to the histories and resets both to zero; a non-terminal call
\* changes neither epsilon nor episodes.
C14_TerminalWithoutTraining ==
    [][MemorizeStep =>
          /\ (LastCall.not_done = 0 /\ ~train) =>
                /\ epsilon' = epsilon
                /\ episodes' = episodes + 1
                /\ rewards_history' = Append(rewards_history, episode_reward)
                /\ steps_per_episode' =
                     Append(steps_per_episode, episode_length)
                /\ episode_reward' = 0
                /\ episode_length' = 0
          /\ LastCall.not_done # 0 =>
                /\ epsilon' = epsilon
                /\ episodes' = episodes]_vars

C14_Witness ==
    /\ ~train
    /\ Len(calls) = 2
    /\ calls[1].not_done = 1
    /\ calls[2].not_done = 0
    /\ epsilon = epsilon_start
    /\ episodes = 1
    /\ rewards_history = <<calls[1].r>>
    /\ steps_per_episode = <<1>>
    /\ episode_reward = 0
    /\ episode_length = 0

\* C15: epsilon never increases from one state to the next, and it changes
\* only in a terminal memorize_transition call made in training mode.
C15_EpsilonNeverIncreases ==
    [][/\ RatLeq(epsilon', epsilon)
       /\ epsilon' # epsilon =>
            /\ train
            /\ MemorizeStep
            /\ LastCall.not_done = 0]_vars

C15_Witness ==
    /\ RatLt(epsilon, epsilon_end)
    /\ episodes > epsilon_decay_steps
    /\ select_calls > 0
    /\ Len(losses) > 0

\* C16: each terminal memorize_transition call adds one to episodes, appends
\* one entry to rewards_history and one to steps_per_episode and leaves
\* episode_reward and episode_length zero; both histories always have
\* episodes entries and their existing entries never change.
C16_HistoriesPerEpisode ==
    [][/\ (MemorizeStep /\ LastCall.not_done = 0) =>
            /\ episodes' = episodes + 1
            /\ Len(rewards_history') = Len(rewards_history) + 1
            /\ Len(steps_per_episode') = Len(steps_per_episode) + 1
            /\ episode_reward' = 0
            /\ episode_length' = 0
       /\ Len(rewards_history) = episodes
       /\ Len(steps_per_episode) = episodes
       /\ Len(rewards_history') = episodes'
       /\ Len(steps_per_episode') = episodes'
       /\ Len(rewards_history') >= Len(rewards_history)
       /\ Len(steps_per_episode') >= Len(steps_per_episode)
       /\ SubSeq(rewards_history', 1, Len(rewards_history)) = rewards_history
       /\ SubSeq(steps_per_episode', 1, Len(steps_per_episode)) =
            steps_per_episode]_vars

C16_Witness ==
    /\ episodes = 2
    /\ Len(rewards_history) = 2
    /\ Len(steps_per_episode) = 2
    /\ rewards_history[1] # rewards_history[2]
    /\ steps_per_episode[1] # steps_per_episode[2]
    /\ calls[Len(calls)].not_done = 0
    /\ episode_reward = 0
    /\ episode_length = 0

\* the k-th smallest member of a set of positions
Nth(set, k) == CHOOSE i \in set : Cardinality({j \in set : j < i}) = k - 1

\* res is str without its leading and trailing whitespace
Stripped(str, res) ==
    \E i, k \in 0 .. Len(str) :
        /\ i + k <= Len(str)
        /\ res = SubSeq(str, i + 1, Len(str) - k)
        /\ \A j \in 1 .. i : str[j] \in Whitespace
        /\ \A j \in (Len(str) - k + 1) .. Len(str) : str[j] \in Whitespace
        /\ res # <<>> => (res[1] \notin Whitespace
                          /\ res[Len(res)] \notin Whitespace)

\* C17: mask(df, key, function) returns a new table made of exactly the
\* rows of df whose cell in column key satisfies the predicate, with every
\* column and in the original order, and leaves df as it was.
C17_MaskFiltersRows ==
    [][Len(frames') = Len(frames) + 1 =>
          LET df == frames[called'.df]
              out == frames'[returned']
              j == CHOOSE c \in 1 .. Len(df.columns) :
                       df.columns[c] = called'.key
              keep == {i \in 1 .. Len(df.data) :
                         df.data[i][j] \in called'.function}
          IN  /\ called'.op = "mask"
              /\ returned' = Len(frames')
              /\ out.columns = df.columns
              /\ Len(out.data) = Cardinality(keep)
              /\ Len(out.index) = Cardinality(keep)
              /\ \A k \in 1 .. Cardinality(keep) :
                    /\ out.data[k] = df.data[Nth(keep, k)]
                    /\ out.index[k] = df.index[Nth(keep, k)]
              /\ \A ref \in DOMAIN frames : frames'[ref] = frames[ref]]_vars

C17_Witness ==
    /\ Len(frames) = 2
    /\ called.op = "mask"
    /\ called.df = 1
    /\ called.key = frames[1].columns[1]
    /\ called.function = {v \in 1 .. 8 : v > 2}
    /\ frames[1].data = <<<<1, 5>>, <<2, 6>>, <<3, 7>>, <<4, 8>>>>
    /\ frames[2].data = <<<<3, 7>>, <<4, 8>>>>
    /\ frames[2].index = <<3, 4>>
    /\ frames[2].columns = frames[1].columns

\* C18: flatten_cols replaces each two-level label (x, y) by x, a space and
\* y with the surrounding whitespace stripped, keeping the column order,
\* changes nothing else of the table and returns the reference it was
\* given; no table is created.
C18_FlattenCols ==
    [][Len(frames') = Len(frames) =>
          LET ref == called'.df
              old == frames[ref]
              new == frames'[ref]
          IN  /\ called'.op = "flatten_cols"
              /\ returned' = ref
              /\ Len(new.columns) = Len(old.columns)
              /\ \A j \in 1 .. Len(old.columns) :
                    Stripped(old.columns[j][1] \o <<" ">> \o old.columns[j][2],
                             new.columns[j])
              /\ new.data = old.data
              /\ new.index = old.index
              /\ \A other \in DOMAIN frames \ {ref} :
                    frames'[other] = frames[other]]_vars

C18_Witness ==
    /\ called # <<>>
    /\ called.op = "flatten_cols"
    /\ returned = called.df
    /\ frames[returned].levels = 1
    /\ frames[returned].columns = <<<<"a">>, <<"b", " ", "c">>>>
    /\ frames[returned].data # <<>>

\* C19: in the results table the rolling count of row i is absent for
\* every i below RollingWindow and, from row RollingWindow on, is the
\* number of rows among the last RollingWindow up to i whose Difference is
\* strictly positive: a whole number from 0 to RollingWindow.
C19_RollingWins ==
    pc = "results" =>
        \A i \in 1 .. Len(results) :
            LET won == {j \in (i - RollingWindow + 1) .. i :
                          j >= 1 /\ results[j].Difference > 0}
            IN  /\ i <= RollingWindow - 1 => results[i].Wins = NaN
                /\ i >= RollingWindow =>
                      /\ results[i].Wins = Value(Cardinality(won))
                      /\ Cardinality(won) \in 0 .. RollingWindow

C19_Witness ==
    /\ pc = "results"
    /\ Len(results) > RollingWindow
    /\ results[RollingWindow - 1].Wins = NaN
    /\ results[RollingWindow - 1].Difference > 0
    /\ results[RollingWindow].Wins # results[RollingWindow + 1].Wins
    /\ results[RollingWindow].Wins \notin {Value(0), Value(RollingWindow)}

\* the characters of text before its first colon, and those after it
RECURSIVE UpToColon(_)
UpToColon(text) ==
    IF text = <<>> \/ Head(text) = ":" THEN <<>>
    ELSE <<Head(text)>> \o UpToColon(Tail(text))

AfterColon(text) == SubSeq(text, Len(UpToColon(text)) + 2, Len(text))

IsNumeral(text) ==
    \A i \in 1 .. Len(text) : \E d \in 1 .. 10 : DigitChars[d] = text[i]

\* the number a numeral stands for
RECURSIVE NumberOf(_)
NumberOf(text) ==
    IF text = <<>> THEN 0
    ELSE 10 * NumberOf(SubSeq(text, 1, Len(text) - 1))
         + (CHOOSE d \in 0 .. 9 : DigitChars[d + 1] = text[Len(text)])

\* C20: for a duration t of a whole number of seconds, format_time(t) is
\* three numerals h, m and s of at least two digits each, separated by
\* colons, with h*3600 + m*60 + s = t, m <= 59 and s <= 59.
C20_FormatTimeWholeSeconds ==
    (formatted # <<>> /\ total % TicksPerSecond = 0) =>
        LET hh == UpToColon(formatted)
            mm == UpToColon(AfterColon(formatted))
            ss == AfterColon(AfterColon(formatted))
        IN  /\ Len(formatted) = Len(hh) + Len(mm) + Len(ss) + 2
            /\ IsNumeral(hh) /\ IsNumeral(mm) /\ IsNumeral(ss)
            /\ Len(hh) >= 2 /\ Len(mm) >= 2 /\ Len(ss) >= 2
            /\ NumberOf(mm) <= 59
            /\ NumberOf(ss) <= 59
            /\ NumberOf(hh) * 3600 + NumberOf(mm) * 60 + NumberOf(ss)
                 = total \div TicksPerSecond

C20_Witness ==
    /\ total = 3725 * TicksPerSecond
    /\ formatted = <<"0", "1", ":", "0", "2", ":", "0", "5">>

\* ------------------------------------------------------------------------
\* C21: in the training loop every environment step selects an action,
\* steps the environment, records the transition and calls experience
\* replay, in this order and once each, on the step that ends the episode
\* too: the four counts never differ by more than one, they rise in this
\* order, and they are equal at the end of every step
\* ------------------------------------------------------------------------
C21_StepOrder ==
    /\ select_calls >= env_steps
    /\ env_steps >= memorize_calls
    /\ memorize_calls >= replay_calls
    /\ replay_calls >= select_calls - 1
    /\ pc = "step" => select_calls = env_steps + 1
    /\ pc = "memorize" =>
         env_steps = select_calls /\ env_steps = memorize_calls + 1
    /\ pc = "replay" =>
         memorize_calls = select_calls /\ memorize_calls = replay_calls + 1
    /\ pc \notin {"step", "memorize", "replay"} =>
         /\ env_steps = select_calls
         /\ memorize_calls = select_calls
         /\ replay_calls = select_calls

\* the step that ended an episode has replayed, with an update, before the
\* break
C21_Witness ==
    /\ pc = "episode_end"
    /\ done
    /\ episode = 2
    /\ replay_calls = select_calls
    /\ replay_calls = batch_size
    /\ Len(losses) = 1

\* ------------------------------------------------------------------------
\* C22: every run of the training loop ends after at most max_episodes
\* episodes of at most max_episode_steps steps each, so after at most
\* max_episodes * max_episode_steps steps in all, by running out of
\* episodes or by early stopping; it then closes the environment exactly
\* once, and neither resets nor steps it afterwards
\* ------------------------------------------------------------------------
C22_Bounded ==
    /\ episode <= max_episodes
    /\ resets = episode
    /\ episode_step < max_episode_steps
    /\ env_steps <= episode * max_episode_steps
    /\ total_steps <= max_episodes * max_episode_steps
    /\ pc = "close" => episode = max_episodes \/ early_stop(diffs)
    /\ closes = IF pc \in {"done", "results"} THEN 1 ELSE 0
    /\ closed <=> closes = 1

C22_NothingAfterClose ==
    closes >= 1 =>
        /\ closes' = closes
        /\ resets' = resets
        /\ env_steps' = env_steps
        /\ select_calls' = select_calls

C22_Terminates ==
    /\ []C22_Bounded
    /\ [][C22_NothingAfterClose]_vars
    /\ <>[](closes = 1)

\* a run that used every step of every episode and closed
C22_Witness ==
    /\ closes = 1
    /\ episode = max_episodes
    /\ env_steps = max_episodes * max_episode_steps
    /\ total_steps = max_episodes * max_episode_steps

\* ------------------------------------------------------------------------
\* C23: at the end of episode k of the training loop the lists navs,
\* market_navs and diffs hold exactly k entries each, entries once
\* appended never change, diffs[k] = navs[k] - market_navs[k], and the
\* results table has one row per episode run, indexed 1..N
\* ------------------------------------------------------------------------
C23_ListsState ==
    /\ Len(navs) =
         IF pc \in {"loop", "close", "done", "results"}
         THEN episode ELSE episode - 1
    /\ Len(market_navs) = Len(navs)
    /\ Len(diffs) = Len(navs)
    /\ \A k \in 1 .. Len(diffs) : diffs[k] = navs[k] - market_navs[k]
    /\ pc = "results" =>
         /\ DOMAIN results = 1 .. episode
         /\ \A k \in 1 .. episode :
              /\ results[k].Episode = k
              /\ results[k].Agent = navs[k]
              /\ results[k].Market = market_navs[k]
              /\ results[k].Difference = diffs[k]

C23_ListsStep ==
    /\ \A k \in 1 .. Len(navs) :
         /\ k <= Len(navs') /\ navs'[k] = navs[k]
         /\ k <= Len(market_navs') /\ market_navs'[k] = market_navs[k]
         /\ k <= Len(diffs') /\ diffs'[k] = diffs[k]
    /\ (pc = "episode_end" /\ pc' # "episode_end") =>
         /\ Len(navs') = episode
         /\ Len(market_navs') = episode
         /\ Len(diffs') = episode

C23_EpisodeLists == []C23_ListsState /\ [][C23_ListsStep]_vars

\* a table of several episodes, some ended by the step cap, with differing
\* differences
C23_Witness ==
    /\ pc = "results"
    /\ Len(results) >= 3
    /\ episodes < episode
    /\ results[1].Difference # results[2].Difference

\* ------------------------------------------------------------------------
\* C24: the matrix a learning update regresses on is the online network's
\* predictions for the sampled states with, in row i, only the entry of
\* the action taken in sample i replaced, by that sample's target
\* ------------------------------------------------------------------------
C24_TargetMatrix ==
    [][UpdateStep =>
          /\ DOMAIN q_values' = 1 .. batch_size
          /\ \A i \in 1 .. batch_size :
               /\ DOMAIN q_values'[i] = Actions
               /\ \A a \in Actions :
                    IF a = minibatch'[i].a
                    THEN q_values'[i][a] = targets'[i]
                    ELSE q_values'[i][a] =
                           FromInt(predict(online_network,
                                           minibatch'[i].s)[a])]_vars

\* an update whose matrix holds a bootstrapped target next to an untouched
\* prediction
C24_Witness ==
    /\ losses # <<>>
    /\ \E i \in DOMAIN q_values :
          \E a \in Actions :
              /\ a # minibatch[i].a
              /\ q_values[i][a][2] = 1
              /\ q_values[i][minibatch[i].a] = targets[i]
              /\ targets[i][2] # 1

\* ------------------------------------------------------------------------
\* C25 (as stated): in the training loop, in training mode, every step
\* whose lifetime step count is a multiple of tau synchronizes the target
\* network from the online network
\* ------------------------------------------------------------------------
C25_SyncEveryTauSteps ==
    [][(pc = "replay" /\ pc' = "advance" /\ train
          /\ total_steps % tau = 0) => synced_at' = total_steps]_vars

\* C25 (amended): in the training loop, in training mode, the target
\* network is synchronized from the online network at every step whose
\* lifetime step count is a multiple of tau and at which a learning update
\* executes, and at no other step, so the number of steps between
\* consecutive synchronizations made by learning updates is tau
C25_SyncEveryTauUpdates ==
    [][(pc = "replay" /\ pc' = "advance" /\ train) =>
          /\ (total_steps % tau = 0 /\ UpdateStep) =>
                /\ synced_at' = total_steps
                /\ target_network' = online_network'
          /\ (total_steps % tau # 0 \/ ~UpdateStep) =>
                /\ synced_at' = synced_at
                /\ target_network' = target_network
          /\ (synced_at' # synced_at /\ synced_at # 0) =>
                synced_at' = synced_at + tau]_vars

\* two synchronizations by learning updates, tau steps apart, after a
\* multiple of tau that passed without one
C25_Witness ==
    /\ pc = "advance"
    /\ train
    /\ tau < batch_size
    /\ synced_at = total_steps
    /\ synced_at >= batch_size + tau
    /\ Len(losses) = total_steps - batch_size + 1

\* ------------------------------------------------------------------------
\* C26: after every episode of the training loop, ended by the done flag
\* or by the step cap, the agent's episodes equals the loop's episode
\* number, both histories hold one entry per episode of the loop, epsilon
\* has been decayed once per episode, and the running reward and length
\* are zero when the next episode starts
\* ------------------------------------------------------------------------
ScheduledEpsilon(k) ==
    IF k <= epsilon_decay_steps
    THEN RatSub(epsilon_start,
                RatMul(FromInt(k),
                       RatDivInt(RatSub(epsilon_start, epsilon_end),
                                 epsilon_decay_steps)))
    ELSE RatMul(epsilon_end,
                RatPow(epsilon_exponential_decay, k - epsilon_decay_steps))

C27_ReplayReadsBuffer ==
    [][ReplayStep =>
          /\ experience' = experience
          /\ epsilon' = epsilon
          /\ total_steps' = total_steps
          /\ episodes' = episodes
          /\ episode_reward' = episode_reward
          /\ episode_length' = episode_length
          /\ rewards_history' = rewards_history
          /\ steps_per_episode' = steps_per_episode
          /\ IF online_network' # online_network
             THEN /\ DOMAIN minibatch' = 1 .. batch_size
                  /\ \E f \in [1 .. batch_size -> 1 .. Len(experience)] :
                        /\ \A i, j \in 1 .. batch_size :
                              i # j => f[i] # f[j]
                        /\ \A i \in 1 .. batch_size :
                              minibatch'[i] = experience[f[i]]
                  /\ Len(losses') = Len(losses) + 1
                  /\ SubSeq(losses', 1, Len(losses)) = losses
             ELSE losses' = losses]_vars

\* an update, after a finished episode, on a buffer of different
\* transitions sampled out of order
C27_Witness ==
    /\ losses # <<>>
    /\ episodes > 0
    /\ total_steps > 0
    /\ Len(experience) = batch_size
    /\ experience[1] # experience[batch_size]
    /\ minibatch[1] = experience[batch_size]
    /\ minibatch[batch_size] = experience[1]
    /\ \A i \in 1 .. batch_size :
          \E p \in 1 .. Len(experience) : minibatch[i] = experience[p]

\* ------------------------------------------------------------------------
\* C28: whatever the operations and however train is switched, epsilon
\* stays strictly positive and never exceeds epsilon_start; a linear
\* decrement is applied only while fewer than epsilon_decay_steps episodes
\* have finished, so at most epsilon_decay_steps times, and never takes
\* epsilon below epsilon_end
\* ------------------------------------------------------------------------
C28_EpsilonRange ==
    /\ RatLt(FromInt(0), epsilon)
    /\ RatLeq(epsilon, epsilon_start)

C28_LinearStep ==
    (epsilon' # epsilon /\ epsilon' = RatSub(epsilon, epsilon_decay)) =>
        /\ episodes < epsilon_decay_steps
        /\ episodes' = episodes + 1
        /\ RatLeq(epsilon_end, epsilon')

C28_EpsilonBounds == []C28_EpsilonRange /\ [][C28_LinearStep]_vars

\* train was off at the end of an episode of the linear phase: fewer than
\* epsilon_decay_steps decrements were made before the exponential phase
C28_Witness ==
    /\ episodes > epsilon_decay_steps
    /\ RatLt(epsilon_end, epsilon)
    /\ RatLt(epsilon, RatSub(epsilon_start, epsilon_decay))
    /\ epsilon # RatSub(epsilon_start, RatMul(FromInt(2), epsilon_decay))

\* ------------------------------------------------------------------------
\* C29: in the training loop, in training mode and with replay_capacity >=
\* batch_size, no learning update is made during the first batch_size - 1
\* steps, the first one is made at the step where total_steps = batch_size
\* and one is made at every later step: at the end of every step
\* len(losses) = max(0, total_steps - batch_size + 1)
\* ------------------------------------------------------------------------
C29_LossesState ==
    (train /\ replay_capacity >= batch_size
       /\ pc \notin {"step", "memorize", "replay"}) =>
        Len(losses) = Max(0, total_steps - batch_size + 1)

C29_UpdateStep ==
    (pc = "replay" /\ pc' = "advance" /\ train
       /\ replay_capacity >= batch_size) =>
        /\ total_steps < batch_size => losses' = losses
        /\ total_steps >= batch_size => UpdateStep
        /\ (total_steps = batch_size /\ UpdateStep) => losses = <<>>

C29_UpdateEveryStep == []C29_LossesState /\ [][C29_UpdateStep]_vars

\* steps without an update followed by several with one
C29_Witness ==
    /\ pc = "advance"
    /\ train
    /\ batch_size > 1
    /\ total_steps = batch_size + 2
    /\ Len(losses) = 3
    /\ Len(experience) = replay_capacity

\* ------------------------------------------------------------------------
\* C30: for every non-negative duration, whole or fractional, the minutes
\* and the seconds printed by format_time are each between 00 and 59
\* ------------------------------------------------------------------------
C30_FieldsBelowSixty ==
    formatted # <<>> =>
        LET mm == UpToColon(AfterColon(formatted))
            ss == AfterColon(AfterColon(formatted))
        IN  /\ IsNumeral(mm) /\ Len(mm) = 2 /\ NumberOf(mm) <= 59
            /\ IsNumeral(ss) /\ Len(ss) = 2 /\ NumberOf(ss) <= 59

====
